---- MODULE Spec2Model ----
(***************************************************************************)
(* State-machine model of limetr.LimeTr (src/limetr/__init__.py): the      *)
(* constructor and its check(), the solver callbacks objective/gradient,   *)
(* optimize and fitModel, together with the two helpers of limetr.utils    *)
(* (VarMat, projCappedSimplex) that the class imports.                     *)
(*                                                                         *)
(* Numbers.  Real scalars are exact rationals <<num, den>> with den > 0.   *)
(* Box bounds are extended rationals <<kind, num, den>>, kind -1 for -inf, *)
(* 0 for a finite value and 1 for +inf.  None is the empty tuple for an    *)
(* array and the string "None" for info.                                   *)
(***************************************************************************)
EXTENDS Integers, Sequences, FiniteSets, TLC

VARIABLES pc, cfg, self, call, fn

vars == <<pc, cfg, self, call, fn>>

-----------------------------------------------------------------------------
(* Bounds of the model *)

MaxGroups == 2

MaxGroupSize == 2

-----------------------------------------------------------------------------
(* Exact rational arithmetic *)

Abs(a) == IF a < 0 THEN -a ELSE a

(* The recursive and the repeated parts are functions: a function is       *)
(* applied to the value of its argument, an operator to its expression.    *)
Gcd[a \in Nat, b \in Nat] == IF b = 0 THEN a ELSE Gcd[b, a % b]

RatF[a \in Int, b \in Int] == <<a \div Gcd[Abs(a), b], b \div Gcd[Abs(a), b]>>

(* a/b in lowest terms, b > 0 *)
Rat(a, b) == RatF[a, b]

RLe(a, b) == a[1] * b[2] <= b[1] * a[2]

RLt(a, b) == a[1] * b[2] < b[1] * a[2]

REq(a, b) == a[1] * b[2] = b[1] * a[2]

RAddF[a \in Int \X Int, b \in Int \X Int] ==
    RatF[a[1] * b[2] + b[1] * a[2], a[2] * b[2]]

RAdd(a, b) == RAddF[a, b]

RSub(a, b) == RAddF[a, <<-b[1], b[2]>>]

RMulF[a \in Int \X Int, b \in Int \X Int] == RatF[a[1] * b[1], a[2] * b[2]]

RMul(a, b) == RMulF[a, b]

RSumF[s \in Seq(Int \X Int)] ==
    IF s = <<>> THEN <<0, 1>> ELSE RAddF[Head(s), RSumF[Tail(s)]]

RSum(s) == RSumF[s]

RECURSIVE Sum(_)
Sum(s) == IF s = <<>> THEN 0 ELSE Head(s) + Sum(Tail(s))

Repeat(v, count) == [i \in 1..count |-> v]

(* extended rationals: -inf < every finite value < +inf *)
NegInf == <<-1, 0, 1>>

PosInf == <<1, 0, 1>>

Fin(a) == <<0, a[1], a[2]>>

ExtLe(a, b) ==
    \/ a[1] < b[1]
    \/ a[1] = b[1] /\ (a[1] # 0 \/ a[2] * b[3] <= b[2] * a[3])

(* all sequences over S of length 1..len *)
SeqsUpTo(S, len) == UNION {[1..l -> S] : l \in 1..len}

-----------------------------------------------------------------------------
(* LimeTr.__init__, lines 15-24: n, m, N, k, idx_split *)

(* np.cumsum *)
RECURSIVE CumSum(_)
CumSum(s) ==
    IF s = <<>> THEN <<>>
    ELSE LET front == CumSum(SubSeq(s, 1, Len(s) - 1))
         IN  Append(front, Sum(s))

(* np.cumsum(np.insert(n, 0, 0))[:-1] *)
IdxSplit(n) ==
    LET c == CumSum(<<0>> \o n)
    IN  SubSeq(c, 1, Len(c) - 1)

(* x[self.idx_beta] and x[self.idx_gamma]: Python slices, clipped to the array *)
Slice(x, lo, hi) ==
    LET h == IF hi < Len(x) THEN hi ELSE Len(x)
    IN  IF lo >= h THEN <<>> ELSE SubSeq(x, lo + 1, h)

-----------------------------------------------------------------------------
(* LimeTr.__init__ and LimeTr.check *)

(* the default box prior of lines 65-68 *)
DefaultUprior(k_beta, k_gamma) ==
    << Repeat(NegInf, k_beta) \o Repeat(Fin(Rat(0, 1)), k_gamma),
       Repeat(PosInf, k_beta) \o Repeat(PosInf, k_gamma) >>

(* np.floor(inlier_percentage*self.N), line 80 *)
NumInliers(ip, N) == (ip[1] * N) \div ip[2]

(* the weights are set to the inlier percentage itself *)
Weights_unfloored(ip, N) == Repeat(ip, N)

(* np.repeat(self.num_inliers/self.N, self.N), line 82 *)
Weights(ip, N) == [i \in 1..N |-> Rat(NumInliers(ip, N), N)]

(* The fields __init__ assigns (lines 15-88) from the constructor's          *)
(* arguments a.  Y and Z are kept by their shapes; C and H by the size of   *)
(* the vector they return at zero (lines 46, 58).                           *)
New(a) ==
    LET N == Sum(a.n)
        k == a.k_beta + a.k_gamma
        uprior == IF a.use_uprior THEN a.uprior
                  ELSE DefaultUprior(a.k_beta, a.k_gamma)
        num_inliers == NumInliers(a.ip, N)
    IN  [ n |-> a.n, m |-> Len(a.n), N |-> N,
          k_beta |-> a.k_beta, k_gamma |-> a.k_gamma, k |-> k,
          idx_split |-> IdxSplit(a.n),
          Yshape |-> a.Yshape, Zshape |-> a.Zshape,
          S |-> a.S, V |-> [i \in 1..Len(a.S) |-> a.S[i] * a.S[i]],
          use_constraints |-> a.useC, use_regularizer |-> a.useH,
          use_uprior |-> TRUE, use_gprior |-> a.use_gprior,
          c |-> a.c, num_constraints |-> IF a.useC THEN a.ncon ELSE 0,
          h |-> a.h, num_regularizer |-> IF a.useH THEN a.nreg ELSE 0,
          uprior |-> uprior, lb |-> uprior[1], ub |-> uprior[2],
          gprior |-> a.gprior,
          use_trimming |-> RLt(Rat(0, 1), a.ip) /\ RLt(a.ip, Rat(1, 1)),
          inlier_percentage |-> a.ip,
          num_inliers |-> num_inliers,
          num_outliers |-> N - num_inliers,
          w |-> Weights(a.ip, N),
          soln |-> <<>>, info |-> "None",
          beta |-> Repeat(Rat(0, 1), a.k_beta),
          gamma |-> Repeat(Rat(1, 100), a.k_gamma) ]

(* check() with the variance test weakened to S >= 0 *)
check_nonnegative_S(o) ==
    /\ o.Yshape = <<o.N>>
    /\ Len(o.S) = o.N
    /\ o.Zshape = <<o.N, o.k_gamma>>
    /\ \A i \in 1..Len(o.S) : o.S[i] >= 0
    /\ o.use_constraints =>
          /\ Len(o.c[1]) = o.num_constraints /\ Len(o.c[2]) = o.num_constraints
          /\ \A i \in 1..Len(o.c[1]) : o.c[1][i] <= o.c[2][i]
    /\ o.use_regularizer =>
          /\ Len(o.h[1]) = o.num_regularizer /\ Len(o.h[2]) = o.num_regularizer
          /\ \A i \in 1..Len(o.h[2]) : o.h[2][i] > 0
    /\ o.use_uprior => \A i \in 1..Len(o.lb) : ExtLe(o.lb[i], o.ub[i])
    /\ o.use_gprior =>
          /\ Len(o.gprior[1]) = o.k /\ Len(o.gprior[2]) = o.k
          /\ \A i \in 1..Len(o.gprior[2]) : o.gprior[2][i] > 0
    /\ RLt(Rat(0, 1), o.inlier_percentage) /\ RLe(o.inlier_percentage, Rat(1, 1))

(* check(), lines 93-114: the asserts in order; TRUE when all of them pass *)
check(o) ==
    /\ o.Yshape = <<o.N>>
    /\ Len(o.S) = o.N
    /\ o.Zshape = <<o.N, o.k_gamma>>
    /\ \A i \in 1..Len(o.S) : o.S[i] > 0
    /\ o.use_constraints =>
          /\ Len(o.c[1]) = o.num_constraints /\ Len(o.c[2]) = o.num_constraints
          /\ \A i \in 1..Len(o.c[1]) : o.c[1][i] <= o.c[2][i]
    /\ o.use_regularizer =>
          /\ Len(o.h[1]) = o.num_regularizer /\ Len(o.h[2]) = o.num_regularizer
          /\ \A i \in 1..Len(o.h[2]) : o.h[2][i] > 0
    /\ o.use_uprior => \A i \in 1..Len(o.lb) : ExtLe(o.lb[i], o.ub[i])
    /\ o.use_gprior =>
          /\ Len(o.gprior[1]) = o.k /\ Len(o.gprior[2]) = o.k
          /\ \A i \in 1..Len(o.gprior[2]) : o.gprior[2][i] > 0
    /\ RLt(Rat(0, 1), o.inlier_percentage) /\ RLe(o.inlier_percentage, Rat(1, 1))

(* what the last call did, as its caller sees it *)
Call(op, exc, arg, arg_after, use_ad, varmats, optimize_calls, proj_steps) ==
    [ op |-> op, exc |-> exc, arg |-> arg, arg_after |-> arg_after,
      use_ad |-> use_ad, varmats |-> varmats,
      optimize_calls |-> optimize_calls, proj_steps |-> proj_steps ]

NoCall == Call("none", "none", <<>>, <<>>, FALSE, <<>>, 0, 0)

NoFn == [op |-> "none"]

(* LimeTr(...): __init__ runs check() last (line 91); a failed assert leaves *)
(* the caller without a model object.                                       *)
Construct(a) ==
    LET o == New(a) IN
    /\ pc = "new"
    /\ cfg' = a
    /\ IF check(o)
       THEN /\ pc' = "ready"
            /\ self' = o
            /\ call' = Call("__init__", "none", <<>>, <<>>, FALSE, <<>>, 0, 0)
       ELSE /\ pc' = "failed"
            /\ self' = <<>>
            /\ call' = Call("__init__", "AssertionError", <<>>, <<>>, FALSE, <<>>, 0, 0)
    /\ UNCHANGED fn

-----------------------------------------------------------------------------
(* LimeTr.objective and LimeTr.gradient *)

(* a ** b for b in [0, 1] is kept as the triple <<a, num(b), den(b)>> *)
Pow(a, b) == <<a, b[1], b[2]>>

(* The arguments of VarMat(V, Z, gamma, self.n), lines 122-137 and 179-196. *)
(* With trimming V is self.V**self.w and Z is scaled row by row, which      *)
(* keeps its shape; without it they are self.V and self.Z.                  *)
VarMatArgs(o, x) ==
    [ V |-> IF o.use_trimming
            THEN [i \in 1..Len(o.V) |-> Pow(o.V[i], o.w[i])]
            ELSE [i \in 1..Len(o.V) |-> Pow(o.V[i], Rat(1, 1))],
      Zshape |-> o.Zshape,
      gamma |-> Slice(x, o.k_beta, o.k),
      n |-> o.n ]

(* objective stores its unpacked variables on the model *)
objective_caching(o, x, use_ad) ==
    [ self |-> [o EXCEPT !.beta = Slice(x, 0, o.k_beta),
                         !.gamma = Slice(x, o.k_beta, o.k)],
      x_after |-> x, exc |-> "none",
      varmats |-> <<VarMatArgs(o, x)>> ]

(* objective(x, use_ad), lines 116-160: one VarMat is built from locals;    *)
(* no attribute of self and no element of x is assigned.                    *)
objective(o, x, use_ad) ==
    [ self |-> o, x_after |-> x, exc |-> "none",
      varmats |-> <<VarMatArgs(o, x)>> ]

(* np.add.reduceat(a, idx) raises IndexError when an index is not below     *)
(* the length of a                                                          *)
ReduceatRaises(len, idx) == \E i \in 1..Len(idx) : idx[i] >= len

(* A complex array is a sequence of <<num, den, im>>, im counting the     *)
(* steps eps*1j added to the entry.  x + 0j, line 166: a new array.         *)
Complex(x) == [i \in 1..Len(x) |-> <<x[i][1], x[i][2], 0>>]

(* lines 167-170: for each i, z[i] += eps*1j, objective(z), z[i] -= eps*1j *)
RECURSIVE GradientAd(_, _, _, _)
GradientAd(o, z, i, built) ==
    IF i > o.k THEN [self |-> o, z |-> z, varmats |-> built]
    ELSE LET zi == [z EXCEPT ![i][3] = @ + 1]
             r  == objective(o, zi, TRUE)
         IN  GradientAd(r.self, [r.x_after EXCEPT ![i][3] = @ - 1], i + 1,
                        built \o r.varmats)

(* gradient(x, use_ad, eps), lines 162-218.  With use_ad, objective runs    *)
(* once per coordinate on the copy z.  Otherwise one VarMat is built and    *)
(* the blocked reduction over idx_split (line 205) runs on rows of length N.*)
gradient(o, x, use_ad) ==
    IF use_ad
    THEN LET r == GradientAd(o, Complex(x), 1, <<>>)
         IN  [ self |-> r.self, x_after |-> x, exc |-> "none",
               varmats |-> r.varmats ]
    ELSE [ self |-> o, x_after |-> x,
           exc |-> IF ReduceatRaises(o.N, o.idx_split)
                   THEN "IndexError" ELSE "none",
           varmats |-> <<VarMatArgs(o, x)>> ]

-----------------------------------------------------------------------------
(* LimeTr.optimize and LimeTr.fitModel *)

(* the solver start point is bound to soln, and info to nothing *)
OptimizeLocals_soln_only(o, x0) ==
    [ bound |-> {"self", "x0", "print_level", "max_iter", "opt_problem", "soln"},
      soln |-> x0, info |-> "None" ]

(* The names bound when line 272 runs: the parameters (line 253) and        *)
(* opt_problem (line 259).  Nothing in optimize or in the module binds      *)
(* soln or info.                                                            *)
OptimizeLocals(o, x0) ==
    [ bound |-> {"self", "x0", "print_level", "max_iter", "opt_problem"},
      soln |-> <<>>, info |-> "None" ]

(* lines 272-275 in order: the attribute assigned and the name it reads *)
OptimizeAssigns ==
    << <<"soln", "soln">>, <<"info", "info">>,
       <<"beta", "soln">>, <<"gamma", "soln">> >>

(* one of the assignments of lines 272-275 *)
Assign(o, target, env) ==
    CASE target = "soln"  -> [o EXCEPT !.soln = env.soln]
      [] target = "info"  -> [o EXCEPT !.info = env.info]
      [] target = "beta"  -> [o EXCEPT !.beta = Slice(env.soln, 0, o.k_beta)]
      [] target = "gamma" -> [o EXCEPT !.gamma = Slice(env.soln, o.k_beta, o.k)]

(* the statements from the i-th on: reading an unbound name raises *)
RECURSIVE RunAssigns(_, _, _)
RunAssigns(o, env, i) ==
    IF i > Len(OptimizeAssigns) THEN [self |-> o, exc |-> "none"]
    ELSE IF OptimizeAssigns[i][2] \notin env.bound
         THEN [self |-> o, exc |-> "NameError"]
         ELSE RunAssigns(Assign(o, OptimizeAssigns[i][1], env), env, i + 1)

(* optimize(x0), lines 253-275; x0 = <<>> stands for None *)
optimize(o, x0) ==
    LET start == IF x0 = <<>> THEN o.beta \o o.gamma ELSE x0
    IN  IF Len(start) # o.k
        THEN [self |-> o, exc |-> "AssertionError"]
        ELSE RunAssigns(o, OptimizeLocals(o, start), 1)

(* fitModel(x0, ...), lines 277-293.  Without trimming it is one optimize   *)
(* call; with trimming it sets num_iter and err and returns.                *)
fitModel(o, x0) ==
    IF ~o.use_trimming
    THEN LET r == optimize(o, x0)
         IN  [self |-> r.self, exc |-> r.exc, optimize_calls |-> 1, proj_steps |-> 0]
    ELSE [self |-> o, exc |-> "none", optimize_calls |-> 0, proj_steps |-> 0]

-----------------------------------------------------------------------------
(* The calls a caller (or the solver, for the callbacks) makes *)

(* the coordinates of the points the callers pass *)
XVals == {Rat(-1, 1), Rat(0, 1), Rat(1, 1)}

(* x is within the box [lb, ub] *)
InBox(o, x) ==
    /\ Len(x) = o.k
    /\ \A i \in 1..o.k : ExtLe(o.lb[i], Fin(x[i])) /\ ExtLe(Fin(x[i]), o.ub[i])

Points(k) == [1..k -> XVals]

(* start points: None, every point of the right size, one of a wrong size *)
StartPoints(k) == {<<>>} \cup Points(k) \cup {Repeat(Rat(0, 1), k + 1)}

Objective ==
    /\ pc = "ready"
    /\ \E x \in Points(self.k), use_ad \in BOOLEAN :
          LET r == objective(self, x, use_ad) IN
          /\ self' = r.self
          /\ call' = Call("objective", r.exc, x, r.x_after, use_ad, r.varmats, 0, 0)
    /\ UNCHANGED <<pc, cfg, fn>>

Gradient ==
    /\ pc = "ready"
    /\ \E x \in Points(self.k), use_ad \in BOOLEAN :
          LET r == gradient(self, x, use_ad) IN
          /\ self' = r.self
          /\ call' = Call("gradient", r.exc, x, r.x_after, use_ad, r.varmats, 0, 0)
    /\ UNCHANGED <<pc, cfg, fn>>

Optimize ==
    /\ pc = "ready"
    /\ \E x0 \in StartPoints(self.k) :
          LET r == optimize(self, x0) IN
          /\ self' = r.self
          /\ call' = Call("optimize", r.exc, x0, x0, FALSE, <<>>, 1, 0)
    /\ UNCHANGED <<pc, cfg, fn>>

FitModel ==
    /\ pc = "ready"
    /\ \E x0 \in StartPoints(self.k) :
          LET r == fitModel(self, x0) IN
          /\ self' = r.self
          /\ call' = Call("fitModel", r.exc, x0, x0, FALSE, <<>>,
                          r.optimize_calls, r.proj_steps)
    /\ UNCHANGED <<pc, cfg, fn>>

-----------------------------------------------------------------------------
(* Constructor arguments drawn by the model *)

GroupSizes == SeqsUpTo(0..MaxGroupSize, MaxGroups)

(* S: all entries 2, or one entry replaced by 0 or by -1; length N or N+1 *)
SVectors(N) ==
    {Repeat(2, N), Repeat(2, N + 1)}
        \cup {[i \in 1..N |-> IF i = 1 THEN 0 ELSE 2] : j \in {1} \cap (1..N)}
        \cup {[i \in 1..N |-> IF i = N THEN -1 ELSE 2] : j \in {1} \cap (1..N)}

YShapes(N) == {<<N>>, <<N + 1>>}

ZShapes(N, k_gamma) == {<<N, k_gamma>>, <<N + 1, k_gamma>>, <<N, k_gamma + 1>>}

(* (given, c): the constraint range of testProblem, and one with cl > cu *)
COptions == {<<FALSE, <<<<>>, <<>>>>>>, <<TRUE, <<<<0>>, <<1>>>>>>, <<TRUE, <<<<1>>, <<0>>>>>>}

(* (given, h): the regularizer of testProblem, and one with scale 0 *)
HOptions == {<<FALSE, <<<<>>, <<>>>>>>, <<TRUE, <<<<0>>, <<2>>>>>>, <<TRUE, <<<<0>>, <<0>>>>>>}

(* (given, uprior): none, testProblem's [0, inf), the box [-1, 1], and one  *)
(* with lb > ub in the last coordinate                                      *)
UOptions(k) ==
    { <<FALSE, <<<<>>, <<>>>>>>,
      <<TRUE, <<Repeat(Fin(Rat(0, 1)), k), Repeat(PosInf, k)>>>>,
      <<TRUE, <<Repeat(Fin(Rat(-1, 1)), k), Repeat(Fin(Rat(1, 1)), k)>>>>,
      <<TRUE, <<[i \in 1..k |-> Fin(Rat(IF i = k THEN 1 ELSE 0, 1))],
                [i \in 1..k |-> Fin(Rat(IF i = k THEN 0 ELSE 1, 1))]>>>> }

(* (given, gprior): testProblem's (0, 2), and one with a negative scale *)
GOptions(k) ==
    { <<FALSE, <<<<>>, <<>>>>>>,
      <<TRUE, <<Repeat(0, k), Repeat(2, k)>>>>,
      <<TRUE, <<Repeat(0, k), [i \in 1..k |-> IF i = 1 THEN -1 ELSE 2]>>>> }

Args(n, kb, kg, Ysh, S, Zsh, C, H, U, G, ip) ==
    [ n |-> n, k_beta |-> kb, k_gamma |-> kg, Yshape |-> Ysh, S |-> S,
      Zshape |-> Zsh, useC |-> C[1], ncon |-> 1, c |-> C[2],
      useH |-> H[1], nreg |-> 1, h |-> H[2],
      use_uprior |-> U[1], uprior |-> U[2],
      use_gprior |-> G[1], gprior |-> G[2], ip |-> ip ]

(* the (k_beta, k_gamma) pairs the model draws *)
Dims == {<<1, 1>>}

(* the inlier percentages the model draws: 0 and 3/2 are outside (0, 1] *)
Percentages == {Rat(0, 1), Rat(1, 2), Rat(9, 10), Rat(1, 1), Rat(3, 2)}

(* the constructor called with any combination of valid and invalid arguments *)
ConstructAny ==
    /\ pc = "new"
    /\ \E n \in GroupSizes, d \in Dims :
      \E Ysh \in YShapes(Sum(n)), S \in SVectors(Sum(n)),
         Zsh \in ZShapes(Sum(n), d[2]), C \in COptions, H \in HOptions,
         U \in UOptions(d[1] + d[2]), G \in GOptions(d[1] + d[2]),
         ip \in Percentages \ {Rat(1, 2)} :
            Construct(Args(n, d[1], d[2], Ysh, S, Zsh, C, H, U, G, ip))

(* the constructor called with data of the right shapes *)
ConstructShaped ==
    /\ pc = "new"
    /\ \E n \in GroupSizes, d \in Dims :
      \E C \in {x \in COptions : x[2][1] = <<>> \/ x[2][1][1] <= x[2][2][1]},
         U \in UOptions(d[1] + d[2]),
         ip \in Percentages \ {Rat(3, 2)} :
            Construct(Args(n, d[1], d[2], <<Sum(n)>>, Repeat(2, Sum(n)),
                           <<Sum(n), d[2]>>, C, <<FALSE, <<<<>>, <<>>>>>>, U,
                           <<FALSE, <<<<>>, <<>>>>>>, ip))

-----------------------------------------------------------------------------
(* The constructor alone, over every combination of arguments *)

InitCtor ==
    /\ pc = "new"
    /\ cfg = <<>>
    /\ self = <<>>
    /\ call = NoCall
    /\ fn = NoFn

NextCtor == ConstructAny

SpecCtor == InitCtor /\ [][NextCtor]_vars

-----------------------------------------------------------------------------
(* A model and the calls made on it *)

Init == InitCtor

Next ==
    \/ ConstructShaped
    \/ Objective
    \/ Gradient
    \/ Optimize
    \/ FitModel

Spec == Init /\ [][Next]_vars

-----------------------------------------------------------------------------
(* The blocked reduction of gradient, line 205 *)

(* a[lo], ..., a[hi - 1], indices from 0 *)
RECURSIVE SumRange(_, _, _)
SumRange(a, lo, hi) == IF lo >= hi THEN 0 ELSE a[lo + 1] + SumRange(a, lo + 1, hi)

(* np.add.reduceat(a, idx): entry i is the sum of a[idx[i]:idx[i+1]] when   *)
(* idx[i] < idx[i+1], the single element a[idx[i]] when idx[i] >= idx[i+1], *)
(* and the sum of a[idx[i]:] for the last index.                            *)
Reduceat(a, idx) ==
    [ i \in 1..Len(idx) |->
        IF i = Len(idx) THEN SumRange(a, idx[i], Len(a))
        ELSE IF idx[i] < idx[i + 1] THEN SumRange(a, idx[i], idx[i + 1])
        ELSE a[idx[i] + 1] ]

(* the entries of one row of DZ.T*R *)
RowVals == {-1, 1, 2}

(* the constructor called with group sizes n and data of the right shapes *)
Shaped(n) ==
    Args(n, 1, 1, <<Sum(n)>>, Repeat(2, Sum(n)), <<Sum(n), 1>>,
         <<FALSE, <<<<>>, <<>>>>>>, <<FALSE, <<<<>>, <<>>>>>>,
         <<FALSE, <<<<>>, <<>>>>>>, <<FALSE, <<<<>>, <<>>>>>>, Rat(1, 1))

InitSplit ==
    /\ pc = "fn"
    /\ cfg = <<>>
    /\ self = <<>>
    /\ call = NoCall
    /\ \E n \in GroupSizes :
          \E row \in [1..Sum(n) -> RowVals] :
             fn = [op |-> "row", n |-> n, row |-> row]

(* one row of np.add.reduceat(DZ.T*R, self.idx_split, axis=1) on a model    *)
(* the constructor returned for group sizes n                               *)
BlockedReduction ==
    /\ pc = "fn"
    /\ fn.op = "row"
    /\ LET o == New(Shaped(fn.n)) IN
       /\ check(o)
       /\ fn' = [ op |-> "reduceat", n |-> fn.n, row |-> fn.row,
                  idx_split |-> o.idx_split,
                  exc |-> IF ReduceatRaises(Len(fn.row), o.idx_split)
                          THEN "IndexError" ELSE "none",
                  out |-> IF ReduceatRaises(Len(fn.row), o.idx_split)
                          THEN <<>> ELSE Reduceat(fn.row, o.idx_split) ]
    /\ UNCHANGED <<pc, cfg, self, call>>

NextSplit == BlockedReduction

SpecSplit == InitSplit /\ [][NextSplit]_vars

-----------------------------------------------------------------------------
(* limetr.utils.projCappedSimplex (imported at line 5): the projection of v *)
(* onto {w : 0 <= w <= 1, sum(w) = target} by bisection on lambda           *)

MaxLen == 3

(* the entries of v and the targets k/2, k = 0..2N, the model draws *)
ProjVals == {-2, 0, 1, 3}

Targets(N) == {Rat(j, 2) : j \in 0..(2 * N)}

(* tolerance on sum(w) and the width at which the bracket has collapsed *)
ProjTol == Rat(1, 16)

ProjEps == Rat(1, 512)

RAbs(a) == <<Abs(a[1]), a[2]>>

Min(s) == CHOOSE x \in {s[i] : i \in 1..Len(s)} : \A i \in 1..Len(s) : x <= s[i]

Max(s) == CHOOSE x \in {s[i] : i \in 1..Len(s)} : \A i \in 1..Len(s) : x >= s[i]

(* the upper cap is missing *)
Clip_uncapped(a) == IF RLt(a, Rat(0, 1)) THEN Rat(0, 1) ELSE a

(* clip(a, 0, 1) *)
Clip(a) ==
    IF RLt(a, Rat(0, 1)) THEN Rat(0, 1)
    ELSE IF RLt(Rat(1, 1), a) THEN Rat(1, 1) ELSE a

(* w_i = clip(v_i - lambda, 0, 1) *)
Clipped(v, lam) == [i \in 1..Len(v) |-> Clip(RSub(Rat(v[i], 1), lam))]

InitProj ==
    /\ pc = "fn"
    /\ cfg = <<>>
    /\ self = <<>>
    /\ call = NoCall
    /\ \E N \in 1..MaxLen :
          \E v \in [1..N -> ProjVals], t \in Targets(N) :
             fn = [op |-> "project", v |-> v, target |-> t]

(* the degenerate targets return at once; otherwise lambda is bracketed by  *)
(* min(v) - 1 and max(v)                                                    *)
Bracket(f) ==
    LET N == Len(f.v) IN
    IF RLe(f.target, Rat(0, 1))
    THEN [ op |-> "projected", v |-> f.v, target |-> f.target,
           steps |-> 0, bisected |-> FALSE, lam |-> Rat(0, 1),
           w |-> Repeat(Rat(0, 1), N) ]
    ELSE IF RLe(Rat(N, 1), f.target)
    THEN [ op |-> "projected", v |-> f.v, target |-> f.target,
           steps |-> 0, bisected |-> FALSE, lam |-> Rat(0, 1),
           w |-> Repeat(Rat(1, 1), N) ]
    ELSE [ op |-> "bisect", v |-> f.v, target |-> f.target,
           steps |-> 0, lo |-> Rat(Min(f.v) - 1, 1), hi |-> Rat(Max(f.v), 1) ]

(* one bisection step: sum(clip(v - mid, 0, 1)) falls as mid grows; stop    *)
(* when it is within tolerance of the target or the bracket has collapsed   *)
Bisect(f) ==
    LET mid == RMul(RAdd(f.lo, f.hi), Rat(1, 2))
        w   == Clipped(f.v, mid)
        sum == RSum(w)
    IN  IF \/ RLt(RAbs(RSub(sum, f.target)), ProjTol)
           \/ RLt(RSub(f.hi, f.lo), ProjEps)
        THEN [ op |-> "projected", v |-> f.v, target |-> f.target,
               steps |-> f.steps + 1, bisected |-> TRUE, lam |-> mid, w |-> w ]
        ELSE IF RLt(f.target, sum)
        THEN [f EXCEPT !.lo = mid, !.steps = @ + 1]
        ELSE [f EXCEPT !.hi = mid, !.steps = @ + 1]

ProjStart ==
    /\ pc = "fn"
    /\ fn.op = "project"
    /\ fn' = Bracket(fn)
    /\ UNCHANGED <<pc, cfg, self, call>>

ProjBisect ==
    /\ pc = "fn"
    /\ fn.op = "bisect"
    /\ fn' = Bisect(fn)
    /\ UNCHANGED <<pc, cfg, self, call>>

NextProj == ProjStart \/ ProjBisect

(* a call runs to its end: the function has no other thread to wait for *)
SpecProj == InitProj /\ [][NextProj]_vars /\ WF_vars(NextProj)

-----------------------------------------------------------------------------
(* limetr.utils.VarMat (imported at line 4, built at lines 137 and 196):    *)
(* the block-diagonal matrix with blocks diag(V_i) + Z_i diag(gamma) Z_i^T, *)
(* kept as V, Z, gamma and the block sizes n.  Z is a sequence of rows, x a *)
(* sequence of columns.                                                     *)

(* f as an enumerated sequence: TLC keeps [i \in 1..n |-> e] unevaluated   *)
(* and would compute e again at every use                                   *)
Vec(f) == f \o <<>>

Mat(f) == Vec([i \in 1..Len(f) |-> Vec(f[i])])

RDiv(a, b) ==
    IF b[1] < 0 THEN Rat(-(a[1] * b[2]), a[2] * (-b[1]))
    ELSE Rat(a[1] * b[2], a[2] * b[1])

(* the rows lo..hi (from 1) of block i *)
BlockLo(n, i) == Sum(SubSeq(n, 1, i - 1)) + 1

BlockHi(n, i) == Sum(SubSeq(n, 1, i))

BlockOf(n, r) == CHOOSE i \in 1..Len(n) : BlockLo(n, i) <= r /\ r <= BlockHi(n, i)

(* varMat(): the dense N x N matrix, entry (r, c) *)
varMat(V, Z, gamma, n) ==
    Mat([ r \in 1..Len(V) |-> [ c \in 1..Len(V) |->
        (IF r = c THEN V[r] ELSE 0)
        + (IF BlockOf(n, r) = BlockOf(n, c)
           THEN Sum([j \in 1..Len(gamma) |-> Z[r][j] * gamma[j] * Z[c][j]])
           ELSE 0) ] ])

(* M without row i and column j *)
Minor(M, i, j) ==
    [ a \in 1..(Len(M) - 1) |-> [ b \in 1..(Len(M) - 1) |->
        M[IF a < i THEN a ELSE a + 1][IF b < j THEN b ELSE b + 1] ] ]

RECURSIVE RDet(_)
RDet(M) ==
    IF Len(M) = 0 THEN Rat(1, 1)
    ELSE RSum([ j \in 1..Len(M) |->
                  RMul(Rat(IF j % 2 = 1 THEN 1 ELSE -1, 1),
                       RMul(M[1][j], RDet(Minor(M, 1, j)))) ])

(* the solution s of the small dense system M s = t *)
SolveSmall(M, t) ==
    LET det == RDet(M)
        inv == Mat([ a \in 1..Len(M) |-> [ b \in 1..Len(M) |->
                   RDiv(RMul(Rat(IF (a + b) % 2 = 0 THEN 1 ELSE -1, 1),
                             RDet(Minor(M, b, a))), det) ] ])
    IN  Vec([ a \in 1..Len(M) |->
                RSum([ b \in 1..Len(M) |-> RMul(inv[a][b], t[b]) ]) ])

(* Z^T Z is used where Z^T diag(1/V) Z belongs *)
CapMat_unweighted(V, Z, gamma, lo, hi) ==
    Mat([ a \in 1..Len(gamma) |-> [ b \in 1..Len(gamma) |->
        RAdd(Rat(IF a = b THEN 1 ELSE 0, 1),
             RMul(Rat(gamma[a], 1),
                  RSum([ i \in 1..(hi - lo + 1) |->
                           Rat(Z[lo + i - 1][a] * Z[lo + i - 1][b], 1) ]))) ] ])

(* The k_gamma x k_gamma matrix of a block's Woodbury correction,           *)
(* diag(1/gamma) + Z^T diag(1/V) Z, multiplied through by diag(gamma) so    *)
(* that gamma_j = 0 needs no division: I + diag(gamma) Z^T diag(1/V) Z.     *)
CapMat(V, Z, gamma, lo, hi) ==
    Mat([ a \in 1..Len(gamma) |-> [ b \in 1..Len(gamma) |->
        RAdd(Rat(IF a = b THEN 1 ELSE 0, 1),
             RMul(Rat(gamma[a], 1),
                  RSum([ i \in 1..(hi - lo + 1) |->
                           Rat(Z[lo + i - 1][a] * Z[lo + i - 1][b], V[lo + i - 1]) ]))) ] ])

(* one block of invDot on one column r: the Woodbury identity               *)
(*   r/V - (1/V) Z (I + diag(gamma) Z^T (1/V) Z)^-1 diag(gamma) Z^T (r/V)   *)
InvDotBlock(V, Z, gamma, lo, hi, r) ==
    LET len == hi - lo + 1
        u == Vec([ i \in 1..len |-> Rat(r[lo + i - 1], V[lo + i - 1]) ])
        t == Vec([ a \in 1..Len(gamma) |->
                 RMul(Rat(gamma[a], 1),
                      RSum([ i \in 1..len |-> RMul(Rat(Z[lo + i - 1][a], 1), u[i]) ])) ])
        s == SolveSmall(CapMat(V, Z, gamma, lo, hi), t)
    IN  Vec([ i \in 1..len |->
            RSub(u[i],
                 RMul(Rat(1, V[lo + i - 1]),
                      RSum([ a \in 1..Len(gamma) |->
                               RMul(Rat(Z[lo + i - 1][a], 1), s[a]) ]))) ])

(* the blocks' results one after the other *)
RECURSIVE InvDotColumn(_, _, _, _, _, _)
InvDotColumn(V, Z, gamma, n, r, i) ==
    IF i > Len(n) THEN <<>>
    ELSE InvDotBlock(V, Z, gamma, BlockLo(n, i), BlockHi(n, i), r)
            \o InvDotColumn(V, Z, gamma, n, r, i + 1)

(* invDot(x): block by block, column by column *)
invDot(V, Z, gamma, n, x) ==
    [ c \in 1..Len(x) |-> InvDotColumn(V, Z, gamma, n, x[c], 1) ]

(* VarMat.testProblem draws V, Z and gamma at random; the model draws them  *)
(* from these patterns, for any number of rows                              *)
VPatterns(N) == { [i \in 1..N |-> 1], [i \in 1..N |-> 1 + (i % 2)] }

ColPatterns(N) ==
    { [i \in 1..N |-> 1], [i \in 1..N |-> (i % 3) - 1],
      [i \in 1..N |-> IF i % 2 = 1 THEN -1 ELSE 2] }

ZPatterns(N, k) ==
    { [i \in 1..N |-> [j \in 1..k |-> cols[j][i]]] : cols \in [1..k -> ColPatterns(N)] }

(* a vector is one column; a matrix has two *)
XPatterns(N) ==
    { <<c>> : c \in ColPatterns(N) }
        \cup { <<c, [i \in 1..N |-> c[i] + i]>> : c \in ColPatterns(N) }

GammaVals == {0, 1, 2}

InitVarMat ==
    /\ pc = "fn"
    /\ cfg = <<>>
    /\ self = <<>>
    /\ call = NoCall
    /\ \E n \in {g \in GroupSizes : \A i \in 1..Len(g) : g[i] > 0}, k \in 1..2 :
          \E V \in VPatterns(Sum(n)), Z \in ZPatterns(Sum(n), k),
             gamma \in [1..k -> GammaVals], x \in XPatterns(Sum(n)) :
                fn = [ op |-> "VarMat", n |-> n, V |-> V, Z |-> Z,
                       gamma |-> gamma, x |-> x ]

(* my_y = var_mat.invDot(x), beside the dense matrix var_mat.varMat() *)
InvDot ==
    /\ pc = "fn"
    /\ fn.op = "VarMat"
    /\ fn' = [ op |-> "invDot", n |-> fn.n, V |-> fn.V, Z |-> fn.Z,
               gamma |-> fn.gamma, x |-> fn.x,
               dense |-> varMat(fn.V, fn.Z, fn.gamma, fn.n),
               y |-> invDot(fn.V, fn.Z, fn.gamma, fn.n, fn.x) ]
    /\ UNCHANGED <<pc, cfg, self, call>>

NextVarMat == InvDot

SpecVarMat == InitVarMat /\ [][NextVarMat]_vars

-----------------------------------------------------------------------------
(* Properties *)

FourFieldsUnchanged ==
    /\ self'.soln = self.soln
    /\ self'.info = self.info
    /\ self'.beta = self.beta
    /\ self'.gamma = self.gamma

FourFieldsFromOneResult(o) ==
    /\ o.soln # <<>>
    /\ o.info # "None"
    /\ o.beta = Slice(o.soln, 0, o.k_beta)
    /\ o.gamma = Slice(o.soln, o.k_beta, o.k)

(* C1: across every optimize call (direct or through fitModel), whether it *)
(* returns or raises, soln, info, beta and gamma either all keep their      *)
(* values or all take the values of one solver result, with beta and gamma  *)
(* the two slices of soln; a call never leaves only some of them updated.   *)
C1_OptimizeAllOrNothing ==
    [][ (pc = "ready" /\ call'.op \in {"optimize", "fitModel"})
            => (FourFieldsUnchanged \/ FourFieldsFromOneResult(self')) ]_vars

(* an optimize call on a start point of the right size has ended *)
C1_Witness ==
    /\ pc = "ready"
    /\ call.op = "optimize"
    /\ call.arg # <<>>
    /\ call.exc # "AssertionError"

(* C2: every objective or gradient call, with or without trimming and with  *)
(* or without use_ad, leaves every field of the model and the caller's      *)
(* array x as they were.                                                    *)
C2_CallbacksArePure ==
    [][ (pc = "ready" /\ call'.op \in {"objective", "gradient"})
            => (self' = self /\ call'.arg_after = call'.arg) ]_vars

(* a complex-step gradient has been evaluated on a model with trimming *)
C2_Witness ==
    /\ pc = "ready"
    /\ call.op = "gradient"
    /\ call.use_ad
    /\ self.use_trimming
    /\ Len(call.varmats) = self.k

(* C3: an optimize call on a start point of the right size does not raise;  *)
(* it returns with the solver's solution in soln and its status in info,    *)
(* whatever that status is.                                                 *)
C3_OptimizeReturnsSolverResult ==
    (pc = "ready" /\ call.op = "optimize" /\ call.exc # "AssertionError")
        => (call.exc = "none" /\ self.soln # <<>> /\ self.info # "None")

(* the configurations C4 calls invalid, read off the arguments *)
InvalidArgs(a) ==
    LET N == Sum(a.n) IN
    \/ \E i \in 1..Len(a.S) : a.S[i] <= 0
    \/ a.Yshape # <<N>>
    \/ Len(a.S) # N
    \/ a.Zshape # <<N, a.k_gamma>>
    \/ a.use_uprior /\ \E i \in 1..Len(a.uprior[1]) :
          ~ExtLe(a.uprior[1][i], a.uprior[2][i])
    \/ a.useC /\ \E i \in 1..Len(a.c[1]) : a.c[1][i] > a.c[2][i]
    \/ a.useH /\ \E i \in 1..Len(a.h[2]) : a.h[2][i] <= 0
    \/ a.use_gprior /\ \E i \in 1..Len(a.gprior[2]) : a.gprior[2][i] <= 0
    \/ ~(RLt(Rat(0, 1), a.ip) /\ RLe(a.ip, Rat(1, 1)))

(* C4: the constructor never returns a model for an invalid configuration   *)
(* (an S entry <= 0, a wrong shape of Y, S or Z, lb > ub, cl > cu, a        *)
(* regularizer or Gaussian-prior scale <= 0, inlier_percentage outside      *)
(* (0, 1]): it raises, so no method can be called.                          *)
C4_InvalidConfigurationRaises ==
    (pc # "new" /\ InvalidArgs(cfg))
        => (pc = "failed" /\ self = <<>> /\ call.exc = "AssertionError")

(* the constructor has raised on arguments whose only defect is an S entry  *)
(* equal to 0                                                               *)
C4_Witness ==
    /\ pc = "failed"
    /\ \E i \in 1..Len(cfg.S) : cfg.S[i] = 0
    /\ \A i \in 1..Len(cfg.S) : cfg.S[i] >= 0
    /\ cfg.Yshape = <<Sum(cfg.n)>> /\ Len(cfg.S) = Sum(cfg.n)
    /\ cfg.Zshape = <<Sum(cfg.n), cfg.k_gamma>>
    /\ ~cfg.useC /\ ~cfg.useH /\ ~cfg.use_uprior /\ ~cfg.use_gprior
    /\ cfg.ip = Rat(1, 1)

(* C5: in every state of a constructed model w has length N, entries in     *)
(* [0, 1] and sum floor(inlier_percentage*N); right after construction      *)
(* every entry is num_inliers/N.                                            *)
C5_WeightsOnCappedSimplex ==
    pc = "ready" =>
        LET N == Sum(cfg.n)
            target == (cfg.ip[1] * N) \div cfg.ip[2]
        IN  /\ Len(self.w) = N
            /\ \A i \in 1..N : RLe(Rat(0, 1), self.w[i]) /\ RLe(self.w[i], Rat(1, 1))
            /\ REq(RSum(self.w), Rat(target, 1))
            /\ self.num_inliers = target
            /\ call.op = "__init__" =>
                  \A i \in 1..N : self.w[i][1] * N = target * self.w[i][2]

(* a model with trimming and 0 < num_inliers < N, after a fitModel call *)
C5_Witness ==
    /\ pc = "ready"
    /\ call.op = "fitModel"
    /\ self.use_trimming
    /\ self.num_inliers > 0
    /\ self.num_inliers < self.N

(* C6: a fitModel call on a model with trimming has run the outer loop: at  *)
(* least one optimize call with w fixed and one projected step on w.        *)
C6_TrimmingLoopRuns ==
    (pc = "ready" /\ call.op = "fitModel" /\ self.use_trimming)
        => (call.optimize_calls >= 1 /\ call.proj_steps >= 1)

(* C10: every VarMat built by objective or gradient at a point of the box   *)
(* [lb, ub] gets V > 0 and gamma >= 0 elementwise.                          *)
C10_VarMatArgumentsValid ==
    (pc = "ready" /\ call.op \in {"objective", "gradient"}
                  /\ InBox(self, call.arg))
        => \A j \in 1..Len(call.varmats) :
              /\ \A i \in 1..Len(call.varmats[j].V) : call.varmats[j].V[i][1] > 0
              /\ \A i \in 1..Len(call.varmats[j].gamma) :
                    call.varmats[j].gamma[i][1] >= 0

(* C9: idx_split partitions [0, N) into the groups in order, and the        *)
(* blocked reduction returns for every group the sum of the row over that   *)
(* group's rows, for all group sizes the constructor accepts.               *)
C9_BlockedReductionIsGroupSum ==
    fn.op = "reduceat" =>
        LET m == Len(fn.n) IN
        /\ Len(fn.idx_split) = m
        /\ fn.idx_split[1] = 0
        /\ \A i \in 1..(m - 1) : fn.idx_split[i + 1] = fn.idx_split[i] + fn.n[i]
        /\ fn.idx_split[m] + fn.n[m] = Len(fn.row)
        /\ fn.exc = "none"
        /\ \A i \in 1..m :
              fn.out[i] = SumRange(fn.row, fn.idx_split[i], fn.idx_split[i] + fn.n[i])

ProjectionOk ==
    fn.op = "projected" =>
        LET N == Len(fn.v) IN
        /\ Len(fn.w) = N
        /\ \A i \in 1..N : RLe(Rat(0, 1), fn.w[i]) /\ RLe(fn.w[i], Rat(1, 1))
        /\ RLt(RAbs(RSub(RSum(fn.w), fn.target)), ProjTol)
        /\ fn.bisected =>
              \A i \in 1..N :
                 LET d == RSub(Rat(fn.v[i], 1), fn.lam) IN
                 fn.w[i] = IF d[1] < 0 THEN Rat(0, 1)
                           ELSE IF d[1] > d[2] THEN Rat(1, 1) ELSE d
        /\ RLe(fn.target, Rat(0, 1)) => \A i \in 1..N : fn.w[i] = Rat(0, 1)
        /\ RLe(Rat(N, 1), fn.target) => \A i \in 1..N : fn.w[i] = Rat(1, 1)

(* C8: for every v and every target in [0, N] the projection ends, and its  *)
(* result w has 0 <= w_i <= 1, sum within tolerance of the target, is       *)
(* clip(v - lambda, 0, 1) for one lambda, is all zero for target <= 0 and   *)
(* all one for target >= N.                                                 *)
C8_ProjectionOntoCappedSimplex ==
    /\ []ProjectionOk
    /\ <>(fn.op = "projected")

(* a projection that needed several bisection steps, with some entry of w   *)
(* strictly between 0 and 1 and some entry at the cap                       *)
C8_Witness ==
    /\ fn.op = "projected"
    /\ fn.steps >= 3
    /\ \E i \in 1..Len(fn.w) : RLt(Rat(0, 1), fn.w[i]) /\ RLt(fn.w[i], Rat(1, 1))
    /\ \E i \in 1..Len(fn.w) : fn.w[i] = Rat(1, 1)

(* C7: invDot(x) is the solution of the dense system varMat() y = x, the    *)
(* one np.linalg.solve returns (varMat() is positive definite for V > 0 and *)
(* gamma >= 0), exactly and so within 1e-8, whether x is a vector or a      *)
(* matrix with two columns.                                                 *)
C7_InvDotIsDenseSolve ==
    fn.op = "invDot" =>
        /\ Len(fn.y) = Len(fn.x)
        /\ \A c \in 1..Len(fn.x) :
              /\ Len(fn.y[c]) = Len(fn.V)
              /\ \A r \in 1..Len(fn.V) :
                    RSum([ j \in 1..Len(fn.V) |->
                             RMul(Rat(fn.dense[r][j], 1), fn.y[c][j]) ])
                        = Rat(fn.x[c][r], 1)

(* invDot of a two-column matrix on two blocks with two random effects, one *)
(* of them with gamma = 0, where the correction term is not zero            *)
C7_Witness ==
    /\ fn.op = "invDot"
    /\ Len(fn.n) = 2
    /\ Len(fn.gamma) = 2
    /\ fn.gamma[1] = 0 /\ fn.gamma[2] > 0
    /\ Len(fn.x) = 2
    /\ \E r \in 1..Len(fn.V) : fn.y[1][r] # Rat(fn.x[1][r], fn.V[r])

====
